---- MODULE Spec2Model ----
(***************************************************************************)
(* validateToken of src/src/lib/tokens.ts as a state machine.              *)
(*                                                                         *)
(* A compact token is the record of what its three segments decode to:     *)
(* `shape` says which decode step accepts it, `header` and `payload` are   *)
(* the decoded JSON objects (an optional claim is the empty set or a       *)
(* singleton), `sig` names the key under which the signature segment       *)
(* verifies.  An algorithm name is a sequence of characters, so that       *)
(* toLowerCase and startsWith are computed and not assumed.                *)
(***************************************************************************)
EXTENDS Integers, Sequences, FiniteSets, TLC

(* keys: the Key Store, kid -> what getKeyById gives; now: the wall clock in  *)
(* ms; jwt, secret: the arguments of the call; pc: the statement the call    *)
(* is at; decodedHeader .. jwk: the locals of validateToken; result: the     *)
(* value returned; callNo, res1, t1, tCall: the caller's count of calls, the *)
(* first call's result and the clock at the first and the current call;      *)
(* lookups, verifies, verifyErr: the Key Store lookups and verifications of  *)
(* the current call and what the last verification answered; escaped: an     *)
(* exception left validateToken.                                             *)
VARIABLES keys, now, jwt, secret, pc, decodedHeader, decodedPayload, expired,
          key, jwk, result, callNo, res1, t1, tCall, lookups, verifies, verifyErr,
          escaped

vars == <<keys, now, jwt, secret, pc, decodedHeader, decodedPayload, expired,
          key, jwk, result, callNo, res1, t1, tCall, lookups, verifies, verifyErr,
          escaped>>

(* ---------------------------------------------------------------- bounds *)
MaxTicks == 2
MaxCalls == 2

(* ------------------------------------------------------------- constants *)
MsPerSecond == 1000
StartMs == 1500
TickMs == 500

Undef == "undefined"
UndefAlg == <<"undefined">>

HS256 == <<"H", "S", "2", "5", "6">>
hs256 == <<"h", "s", "2", "5", "6">>
RS256 == <<"R", "S", "2", "5", "6">>
EdDSA == <<"E", "d", "D", "S", "A">>

(* ------------------------------------------------------------ data model *)
Algs == {HS256, hs256, RS256, EdDSA, UndefAlg}
Kids == {"k1"}
Secrets == {Undef, "s1", "s2"}
Sigs == {"s1", "rsKey", "edKey", "bad"}
ExpValues == {{}, {0}, {1}, {2}}
NbfValues == {{}, {2}}

Headers == [alg : Algs, kid : Kids \cup {Undef}]
Payloads == [exp : ExpValues, nbf : NbfValues]

EmptyHeader == [alg |-> UndefAlg, kid |-> Undef]
EmptyPayload == [exp |-> {}, nbf |-> {}]
EmptyDecoded == [protectedHeader |-> EmptyHeader, payload |-> EmptyPayload]

WellFormed == {[shape |-> "ok", header |-> h, payload |-> p, sig |-> s] :
                 h \in Headers, p \in Payloads, s \in Sigs}
Malformed == {[shape |-> sh, header |-> [alg |-> HS256, kid |-> Undef],
               payload |-> [exp |-> {1}, nbf |-> {}], sig |-> "s1"] :
                 sh \in {"short", "badHeader", "badPayload"}}
Tokens == WellFormed \cup Malformed

NoJwk == [kty |-> Undef, alg |-> UndefAlg, id |-> Undef]
Jwks == {[kty |-> "OKP", alg |-> EdDSA, id |-> "edKey"],
         [kty |-> "RSA", alg |-> RS256, id |-> "rsKey"],
         [kty |-> "RSA", alg |-> UndefAlg, id |-> "rsKey"]}
KeyRecords == {[status |-> st, jwk |-> NoJwk] : st \in {"miss", "throws", "badjson"}}
              \cup {[status |-> "found", jwk |-> j] : j \in Jwks}
NoKey == [status |-> "miss", jwk |-> NoJwk]

NoToken == [shape |-> "short", header |-> EmptyHeader, payload |-> EmptyPayload,
            sig |-> "bad"]
NoResult == [verified |-> FALSE, decoded |-> EmptyDecoded, expired |-> FALSE,
             error |-> "pending"]

Err(n, m) == [name |-> n, message |-> m]
NoError == Err("", "")
NotCalled == Err("notcalled", "")
Ok(v) == [ok |-> TRUE, val |-> v, err |-> NoError]
Fail(e) == [ok |-> FALSE, val |-> NoJwk, err |-> e]

(* ------------------------------------------------------- string helpers *)
LowerChar(c) ==
  CASE c = "H" -> "h" [] c = "S" -> "s" [] c = "R" -> "r" [] c = "E" -> "e"
    [] c = "D" -> "d" [] c = "A" -> "a" [] OTHER -> c

ToLowerCase(s) == [i \in 1..Len(s) |-> LowerChar(s[i])]

StartsWith(s, p) == Len(s) >= Len(p) /\ SubSeq(s, 1, Len(p)) = p

(* ------------------------------------------------- the jose library calls *)
(* decodeProtectedHeader(jwt): the first of three segments, base64url JSON. *)
DecodeProtectedHeader(t) ==
  IF t.shape \in {"short", "badHeader"}
  THEN [ok |-> FALSE, val |-> EmptyHeader,
        err |-> Err("TypeError", "Invalid Token or Protected Header formatting")]
  ELSE [ok |-> TRUE, val |-> t.header, err |-> NoError]

(* decodeJwt(jwt): the second of three segments, base64url JSON object. *)
DecodeJwt(t) ==
  IF t.shape = "short"
  THEN [ok |-> FALSE, val |-> EmptyPayload, err |-> Err("JWTInvalid", "Invalid JWT")]
  ELSE IF t.shape = "badPayload"
  THEN [ok |-> FALSE, val |-> EmptyPayload,
        err |-> Err("JWTInvalid", "Failed to parse the decoded payload as JSON")]
  ELSE [ok |-> TRUE, val |-> t.payload, err |-> NoError]

(* The library's clock, in whole seconds. *)
Epoch(ms) == ms \div MsPerSecond

(* new TextEncoder().encode(secret): the HMAC key; undefined encodes to no bytes. *)
SecretKey(s) == [kty |-> "oct", alg |-> UndefAlg, id |-> s]

(* The algorithm the key material can be used with, checked against the header. *)
KeyAccepts(k, alg) ==
  IF k.kty = "oct" THEN StartsWith(alg, <<"H", "S">>) /\ alg = HS256
  ELSE alg = k.alg

(* jwtVerify(jwt, key): key/algorithm check, signature, then the nbf and exp claims. *)
JwtVerify(t, k, ms) ==
  IF ~KeyAccepts(k, t.header.alg)
  THEN Fail(Err("TypeError", "Key for this algorithm must be of another type"))
  ELSE IF k.id = Undef
  THEN Fail(Err("DataError", "Zero-length key is not supported"))
  ELSE IF t.sig # k.id
  THEN Fail(Err("JWSSignatureVerificationFailed", "signature verification failed"))
  ELSE IF \E n \in t.payload.nbf : n > Epoch(ms)
  THEN Fail(Err("JWTClaimValidationFailed", "nbf claim timestamp check failed"))
  ELSE IF \E n \in t.payload.exp : n <= Epoch(ms)
  THEN Fail(Err("JWTExpired", "exp claim timestamp check failed"))
  ELSE Ok(NoJwk)

(* importJWK(jwk): an asymmetric JWK without alg cannot be imported. *)
ImportJWK(j) ==
  IF j.alg = UndefAlg
  THEN Fail(Err("TypeError", "alg argument is required when jwk.alg is not present"))
  ELSE Ok(j)

(* ed.verifyAsync(signature, message, pubKey) over the raw segments. *)
EdVerify(t, k) == t.sig = k.id

(* What the verification primitive reached by importJwkAndVerify answered:   *)
(* NotCalled when the import threw first, NoError when it accepted.          *)
LibraryOutcome(t, j, ms) ==
  IF ~ImportJWK(j).ok THEN NotCalled
  ELSE IF ToLowerCase(j.alg) = <<"e", "d", "d", "s", "a">>
  THEN IF EdVerify(t, j) THEN NoError
       ELSE Err("Error", "eddsa token verification failed")
  ELSE JwtVerify(t, j, ms).err

(* ------------------------------------------------------ importJwkAndVerify *)
(* jwtVerify is async: it never throws synchronously, so the catch of lines   *)
(* 121-126 sees nothing, and the promise returned without await carries its   *)
(* rejection to the caller.                                                   *)
ImportJwkAndVerifyAwaited(t, j, ms) ==
  LET imp == ImportJWK(j) IN
  IF ~imp.ok THEN Fail(imp.err)
  ELSE IF ToLowerCase(j.alg) = <<"e", "d", "d", "s", "a">>
  THEN IF EdVerify(t, imp.val) THEN Ok(NoJwk)
       ELSE Fail(Err("Error", "eddsa token verification failed"))
  ELSE LET v == JwtVerify(t, imp.val, ms) IN
       IF v.ok THEN v
       ELSE IF v.err.name = "JWTExpired" THEN v ELSE Ok(NoJwk)

ImportJwkAndVerify(t, j, ms) ==
  LET imp == ImportJWK(j) IN
  IF ~imp.ok THEN Fail(imp.err)
  ELSE IF ToLowerCase(j.alg) = <<"e", "d", "d", "s", "a">>
  THEN IF EdVerify(t, imp.val) THEN Ok(NoJwk)
       ELSE Fail(Err("Error", "eddsa token verification failed"))
  ELSE LET v == JwtVerify(t, imp.val, ms)
           thrownSynchronously == FALSE
       IN  IF thrownSynchronously /\ ~v.ok /\ v.err.name # "JWTExpired"
           THEN Ok(NoJwk)
           ELSE v

(* ------------------------------------------------------------ validateToken *)
DecodedResponse == [protectedHeader |-> decodedHeader, payload |-> decodedPayload]

(* lines 25-28 *)
IsExpired(p, ms) == \E n \in p.exp : n # 0 /\ ms > n * MsPerSecond

IsSymmetric(alg) == StartsWith(ToLowerCase(alg), <<"h", "s">>)

Result(v, d, x, e) == [verified |-> v, decoded |-> d, expired |-> x, error |-> e]

(* The try block that encloses each statement. *)
CatchOfUnguardedParse(loc) ==
  CASE loc = "hsVerify" -> "hs"
    [] loc = "importVerify" -> "asym"
    [] loc = "parseKey" -> "none"
    [] OTHER -> "outer"

CatchOf(loc) ==
  CASE loc = "hsVerify" -> "hs"
    [] loc = "importVerify" -> "asym"
    [] OTHER -> "outer"

(* lines 39-54: the catch of the symmetric path. *)
HsCatchStrict(e) == Result(FALSE, DecodedResponse, expired, e.message)

HsCatch(e) ==
  IF e.name = "JWTExpired"
  THEN Result(TRUE, DecodedResponse, expired, Undef)
  ELSE Result(FALSE, DecodedResponse, expired, e.message)

(* lines 82-89 *)
AsymCatch(e) == Result(FALSE, DecodedResponse, expired, e.message)

(* lines 90-97 *)
OuterCatchSilent(e) == Result(FALSE, EmptyDecoded, FALSE, Undef)

OuterCatch(e) == Result(FALSE, EmptyDecoded, FALSE, e.message)

(* lines 63-70 *)
NoKeyFoundWithError == Result(FALSE, DecodedResponse, expired, "No key found")

NoKeyFound == Result(FALSE, DecodedResponse, expired, Undef)

Finish(r) == /\ pc' = "done"
             /\ result' = r
             /\ escaped' = escaped

Throw(loc, e) ==
  LET h == CatchOf(loc) IN
  /\ pc' = "done"
  /\ IF h = "none"
     THEN /\ escaped' = TRUE
          /\ result' = result
     ELSE /\ escaped' = escaped
          /\ result' = CASE h = "hs" -> HsCatch(e)
                         [] h = "asym" -> AsymCatch(e)
                         [] OTHER -> OuterCatch(e)

Init ==
  /\ keys \in [Kids -> KeyRecords]
  /\ now = StartMs
  /\ jwt = NoToken
  /\ secret = Undef
  /\ pc = "idle"
  /\ decodedHeader = EmptyHeader
  /\ decodedPayload = EmptyPayload
  /\ expired = FALSE
  /\ key = NoKey
  /\ jwk = NoJwk
  /\ result = NoResult
  /\ callNo = 0
  /\ res1 = NoResult
  /\ t1 = 0
  /\ tCall = 0
  /\ lookups = 0
  /\ verifies = 0
  /\ verifyErr = NotCalled
  /\ escaped = FALSE

Enter ==
  /\ pc' = "decodeHeader"
  /\ callNo' = callNo + 1
  /\ tCall' = now
  /\ decodedHeader' = EmptyHeader
  /\ decodedPayload' = EmptyPayload
  /\ expired' = FALSE
  /\ key' = NoKey
  /\ jwk' = NoJwk
  /\ result' = NoResult
  /\ lookups' = 0
  /\ verifies' = 0
  /\ verifyErr' = NotCalled
  /\ UNCHANGED <<keys, now, escaped>>

(* The caller's first call: any token, any secret. *)
Call ==
  /\ pc = "idle"
  /\ \E t \in Tokens, s \in Secrets : jwt' = t /\ secret' = s
  /\ t1' = now
  /\ res1' = res1
  /\ Enter

(* The caller calls again with the same token and secret. *)
CallAgain ==
  /\ pc = "done"
  /\ ~escaped
  /\ callNo < MaxCalls
  /\ res1' = IF callNo = 1 THEN result ELSE res1
  /\ UNCHANGED <<jwt, secret, t1>>
  /\ Enter

(* The wall clock advances between any two steps. *)
Tick ==
  /\ now < StartMs + MaxTicks * TickMs
  /\ now' = now + TickMs
  /\ UNCHANGED <<keys, jwt, secret, pc, decodedHeader, decodedPayload, expired,
                 key, jwk, result, callNo, res1, t1, tCall, lookups, verifies,
                 verifyErr, escaped>>

(* line 17 *)
DecodeHeader ==
  /\ pc = "decodeHeader"
  /\ LET r == DecodeProtectedHeader(jwt) IN
     IF r.ok
     THEN /\ decodedHeader' = r.val
          /\ pc' = "decodePayload"
          /\ UNCHANGED <<result, escaped>>
     ELSE /\ Throw("decodeHeader", r.err)
          /\ UNCHANGED decodedHeader
  /\ UNCHANGED <<keys, now, jwt, secret, decodedPayload, expired, key, jwk,
                 callNo, res1, t1, tCall, lookups, verifies,
                 verifyErr>>

(* line 18 *)
DecodePayload ==
  /\ pc = "decodePayload"
  /\ LET r == DecodeJwt(jwt) IN
     IF r.ok
     THEN /\ decodedPayload' = r.val
          /\ pc' = "expiry"
          /\ UNCHANGED <<result, escaped>>
     ELSE /\ Throw("decodePayload", r.err)
          /\ UNCHANGED decodedPayload
  /\ UNCHANGED <<keys, now, jwt, secret, decodedHeader, expired, key, jwk,
                 callNo, res1, t1, tCall, lookups, verifies,
                 verifyErr>>

(* lines 25-28 *)
ComputeExpired ==
  /\ pc = "expiry"
  /\ expired' = IsExpired(decodedPayload, now)
  /\ pc' = "dispatch"
  /\ UNCHANGED <<keys, now, jwt, secret, decodedHeader, decodedPayload, key, jwk,
                 result, callNo, res1, t1, tCall, lookups, verifies,
                 verifyErr, escaped>>

(* line 31: alg.toLowerCase() of a header without alg throws a TypeError. *)
Dispatch ==
  /\ pc = "dispatch"
  /\ IF decodedHeader.alg = UndefAlg
     THEN Throw("dispatch", Err("TypeError", "Cannot read properties of undefined"))
     ELSE /\ pc' = IF IsSymmetric(decodedHeader.alg) THEN "hsVerify" ELSE "getKey"
          /\ UNCHANGED <<result, escaped>>
  /\ UNCHANGED <<keys, now, jwt, secret, decodedHeader, decodedPayload, expired,
                 key, jwk, callNo, res1, t1, tCall, lookups, verifies,
                 verifyErr>>

(* lines 32-54 *)
HsVerify ==
  /\ pc = "hsVerify"
  /\ verifies' = verifies + 1
  /\ verifyErr' = JwtVerify(jwt, SecretKey(secret), now).err
  /\ LET r == JwtVerify(jwt, SecretKey(secret), now) IN
     IF r.ok
     THEN Finish(Result(TRUE, DecodedResponse, expired, Undef))
     ELSE Throw("hsVerify", r.err)
  /\ UNCHANGED <<keys, now, jwt, secret, decodedHeader, decodedPayload, expired,
                 key, jwk, callNo, res1, t1, tCall, lookups>>

(* lines 58-61 *)
GetKeyConsuming ==
  /\ pc = "getKey"
  /\ IF decodedHeader.kid # Undef
     THEN /\ lookups' = lookups + 1
          /\ keys' = [keys EXCEPT ![decodedHeader.kid] = NoKey]
          /\ IF keys[decodedHeader.kid].status = "throws"
             THEN /\ Throw("getKey", Err("Error", "key store lookup failed"))
                  /\ UNCHANGED key
             ELSE /\ key' = keys[decodedHeader.kid]
                  /\ pc' = "checkKey"
                  /\ UNCHANGED <<result, escaped>>
     ELSE /\ key' = NoKey
          /\ pc' = "checkKey"
          /\ UNCHANGED <<keys, lookups, result, escaped>>
  /\ UNCHANGED <<now, jwt, secret, decodedHeader, decodedPayload, expired,
                 jwk, callNo, res1, t1, tCall, verifies, verifyErr>>

GetKey ==
  /\ pc = "getKey"
  /\ IF decodedHeader.kid # Undef
     THEN /\ lookups' = lookups + 1
          /\ IF keys[decodedHeader.kid].status = "throws"
             THEN /\ Throw("getKey", Err("Error", "key store lookup failed"))
                  /\ UNCHANGED key
             ELSE /\ key' = keys[decodedHeader.kid]
                  /\ pc' = "checkKey"
                  /\ UNCHANGED <<result, escaped>>
     ELSE /\ key' = NoKey
          /\ pc' = "checkKey"
          /\ UNCHANGED <<lookups, result, escaped>>
  /\ UNCHANGED <<keys, now, jwt, secret, decodedHeader, decodedPayload, expired,
                 jwk, callNo, res1, t1, tCall, verifies, verifyErr>>

(* lines 63-70 *)
CheckKey ==
  /\ pc = "checkKey"
  /\ IF key.status = "miss"
     THEN Finish(NoKeyFound)
     ELSE /\ pc' = "parseKey"
          /\ UNCHANGED <<result, escaped>>
  /\ UNCHANGED <<keys, now, jwt, secret, decodedHeader, decodedPayload, expired,
                 key, jwk, callNo, res1, t1, tCall, lookups, verifies,
                 verifyErr>>

(* line 73 *)
ParseKey ==
  /\ pc = "parseKey"
  /\ IF key.status = "badjson"
     THEN /\ Throw("parseKey", Err("SyntaxError", "Unexpected token in JSON"))
          /\ UNCHANGED jwk
     ELSE /\ jwk' = key.jwk
          /\ pc' = "importVerify"
          /\ UNCHANGED <<result, escaped>>
  /\ UNCHANGED <<keys, now, jwt, secret, decodedHeader, decodedPayload, expired,
                 key, callNo, res1, t1, tCall, lookups, verifies,
                 verifyErr>>

(* lines 75-89 *)
ImportVerify ==
  /\ pc = "importVerify"
  /\ verifies' = IF ImportJWK(jwk).ok THEN verifies + 1 ELSE verifies
  /\ verifyErr' = LibraryOutcome(jwt, jwk, now)
  /\ LET r == ImportJwkAndVerify(jwt, jwk, now) IN
     IF r.ok
     THEN Finish(Result(TRUE, DecodedResponse, expired, Undef))
     ELSE Throw("importVerify", r.err)
  /\ UNCHANGED <<keys, now, jwt, secret, decodedHeader, decodedPayload, expired,
                 key, jwk, callNo, res1, t1, tCall, lookups>>

Next ==
  \/ Call
  \/ CallAgain
  \/ Tick
  \/ DecodeHeader
  \/ DecodePayload
  \/ ComputeExpired
  \/ Dispatch
  \/ HsVerify
  \/ GetKey
  \/ CheckKey
  \/ ParseKey
  \/ ImportVerify

Spec == Init /\ [][Next]_vars

TypeOK ==
  /\ jwt \in Tokens \cup {NoToken}
  /\ secret \in Secrets
  /\ result.verified \in BOOLEAN
  /\ result.expired \in BOOLEAN
  /\ callNo \in 0..(MaxCalls + 1)

(* ================================================================ claims *)
Done == pc = "done"
Populated == [protectedHeader |-> jwt.header, payload |-> jwt.payload]
Decodable == jwt.shape = "ok"
HasMessage(r) == r.error # Undef /\ r.error # "" /\ r.error # "pending"
IsValidationResult(r) ==
  /\ r.verified \in BOOLEAN
  /\ r.expired \in BOOLEAN
  /\ r.decoded.protectedHeader \in Headers
  /\ r.decoded.payload \in Payloads
  /\ r.error # "pending"
InCall == pc \notin {"idle", "done"}
StepEnabled ==
  ENABLED (DecodeHeader \/ DecodePayload \/ ComputeExpired \/ Dispatch \/ HsVerify
           \/ GetKey \/ CheckKey \/ ParseKey \/ ImportVerify)
OnSymmetricPath ==
  Done /\ Decodable /\ jwt.header.alg # UndefAlg /\ IsSymmetric(jwt.header.alg)
OnGenericPath ==
  /\ Done /\ Decodable /\ jwk # NoJwk /\ jwk.alg # UndefAlg
  /\ ToLowerCase(jwk.alg) # <<"e", "d", "d", "s", "a">>
KidMissing ==
  /\ Done /\ Decodable /\ jwt.header.kid \in Kids
  /\ keys[jwt.header.kid].status = "miss"

(* C1: whatever the token, the secret, the Key Store behaviour and the       *)
(* outcome of the library calls, no exception escapes validateToken: every   *)
(* call in progress can take its next step, and a finished call has returned *)
(* a ValidationResult record.                                                *)
C1_NothingEscapes ==
  /\ ~escaped
  /\ (InCall => StepEnabled)
  /\ (Done => IsValidationResult(result))

C1_Witness ==
  /\ Done /\ Decodable /\ lookups = 1
  /\ keys[jwt.header.kid].status = "throws"
  /\ result.error = "key store lookup failed"

(* C2: a decodable token whose header declares an hs-prefixed algorithm      *)
(* (case-insensitively) and whose signature was made with the supplied       *)
(* secret is returned verified, whatever its other header fields and claims. *)
C2_MatchingSecretVerifies ==
  (OnSymmetricPath /\ secret # Undef /\ jwt.sig = secret) => result.verified

(* C3: a token whose exp lies before the time of the call is returned with   *)
(* expired = TRUE on every return path.                                      *)
C3_PastExpIsExpired ==
  (Done /\ Decodable /\ \E n \in jwt.payload.exp : n * MsPerSecond < tCall)
    => result.expired

(* C4 as stated: a kid that the Key Store does not hold gives verified =     *)
(* FALSE and no error, whatever the algorithm and the secret.                *)
C4_MissingKidAnyAlg ==
  KidMissing => (~result.verified /\ result.error = Undef)

(* C4 as amended: a kid that the Key Store does not hold gives verified =    *)
(* FALSE and no error when the header declares an algorithm outside the      *)
(* hs-prefixed family, whatever the secret.                                  *)
C4_MissingKidAsymmetric ==
  (KidMissing /\ jwt.header.alg # UndefAlg /\ ~IsSymmetric(jwt.header.alg))
    => (~result.verified /\ result.error = Undef)

C4_Witness ==
  /\ KidMissing /\ jwt.header.alg = EdDSA /\ secret = "s1" /\ jwt.sig = "s1"
  /\ lookups = 1 /\ ~result.verified /\ result.error = Undef

(* C5: when both decode steps succeed, every return path returns decoded     *)
(* populated with the decoded header and payload.                            *)
C5_DecodedPopulated ==
  (Done /\ Decodable) => result.decoded = Populated

(* C6: a malformed token returns empty decoded, expired = FALSE, verified =  *)
(* FALSE and a non-empty error, without a Key Store lookup or a signature    *)
(* verification, and nothing is thrown.                                      *)
C6_MalformedRejected ==
  (Done /\ ~Decodable) =>
    /\ result.decoded = EmptyDecoded
    /\ ~result.expired
    /\ ~result.verified
    /\ HasMessage(result)
    /\ lookups = 0
    /\ verifies = 0
    /\ ~escaped

C6_Witness ==
  /\ Done /\ jwt.shape = "badPayload" /\ decodedHeader = jwt.header
  /\ result.error = "Failed to parse the decoded payload as JSON"

(* C7 as stated: the second of two calls with the same token and secret      *)
(* returns what the first returned.                                          *)
C7_SecondCallSame ==
  (Done /\ callNo >= 2) => result = res1

(* C7 as amended: the second of two calls with the same token and secret     *)
(* returns what the first returned when the clock reads the same time        *)
(* throughout both calls.                                                    *)
C7_SecondCallSameAtSameTime ==
  (Done /\ callNo >= 2 /\ now = t1) => result = res1

C7_Witness ==
  /\ Done /\ callNo = 2 /\ now = t1 /\ lookups = 1
  /\ result.verified /\ result = res1

(* C8: when the header's algorithm differs from the algorithm of the key     *)
(* resolved by kid, the result is verified = FALSE with a non-empty error.   *)
C8_AlgMismatchRejected ==
  (Done /\ Decodable /\ jwk # NoJwk /\ jwk.alg # UndefAlg
        /\ jwt.header.alg # jwk.alg)
    => (~result.verified /\ HasMessage(result))

(* C9: in the generic asymmetric path the result is verified exactly when    *)
(* the library verification succeeded; an expiry failure and any other       *)
(* failure both give verified = FALSE.                                       *)
C9_GenericVerifiedOnlyOnSuccess ==
  OnGenericPath =>
    /\ result.verified <=> verifyErr = NoError
    /\ verifyErr # NoError => (~result.verified /\ verifyErr # NotCalled)

C9_Witness ==
  /\ OnGenericPath /\ verifyErr.name = "JWTExpired" /\ ~result.verified
  /\ result.error = verifyErr.message

(* C10: in the symmetric path a library expiry failure gives verified = TRUE *)
(* with decoded populated, the computed expired flag and no error; any other *)
(* failure gives verified = FALSE with the failure's message; the Key Store  *)
(* is not consulted.                                                         *)
C10_SymmetricExpirySoft ==
  OnSymmetricPath =>
    /\ lookups = 0
    /\ verifyErr # NotCalled
    /\ verifyErr.name = "JWTExpired" =>
         result = Result(TRUE, Populated, expired, Undef)
    /\ verifyErr.name \notin {"", "JWTExpired"} =>
         result = Result(FALSE, Populated, expired, verifyErr.message)

C10_Witness ==
  /\ OnSymmetricPath /\ verifyErr.name = "JWTExpired" /\ result.verified
  /\ result.expired /\ jwt.header.kid \in Kids

====
